---- MODULE Spec2Model ----
(***************************************************************************)
(* The Pagify SDK (src/pagify.js) as a state machine.                      *)
(*                                                                         *)
(* The host page holds PagifySDK instances (the module's singleton and any *)
(* instance made with new PagifySDK()).  Each instance has its own id      *)
(* counter and two callback registries and, when a window exists, one      *)
(* "message" listener on that window.  render() allocates an id, stores    *)
(* the callbacks, composes the iframe document around the id and attaches  *)
(* the iframe.  The iframe's script paginates, posts renderpdf, converts   *)
(* and posts PDF_READY or PDF_ERROR.  Messages posted to the window are    *)
(* queued in posting order (one task source) and every attached listener   *)
(* handles each of them.  Other scripts may post to the same window.       *)
(***************************************************************************)
EXTENDS Integers, Sequences, FiniteSets, TLC

\* ---------------------------------------------------------------- bounds
MaxRender == 2
MaxSDK == 2
\* messages of other scripts queued plus events the host has been handed
MaxQueue == 2
\* pages a document paginates or converts to
MaxPages == 3

\* ------------------------------------------------------------- constants
\* null / undefined: a callback that was not supplied, an id that was never
\* allocated, a falsy iter.
None == 0
\* this.instanceCounter = 1
InitialCounter == 1

\* containerSelector values: absent, matching a node, matching nothing, and
\* a string that is no valid selector (document.querySelector throws).
SelNone == "none"
SelFound == "found"
SelMissing == "missing"
SelInvalid == "invalid"
AllSelectors == {SelNone, SelFound, SelMissing, SelInvalid}
\* The selectors that decide whether the mount stage throws.
Selectors == {SelNone, SelInvalid}

\* message texts of errors raised by the pagination and conversion engines:
\* error.message may be empty (or absent, for a rejection that is no Error).
EngineErrors == {"", "engine failed"}

MessageTypes == {"renderpdf", "PDF_READY", "PDF_ERROR", "other"}
\* event.data?.type of a message with no data or no type field: undefined
NoType == "undefined"

VARIABLES
    hasWindow,           \* typeof window !== 'undefined' (a document exists with it)
    sdkCount,            \* PagifySDK instances constructed: 1..sdkCount
    listeners,           \* instances whose message listener is attached to the window
    instanceCounter,     \* [instance -> this.instanceCounter]
    callbackStorage,     \* [instance -> this.callbackStorage], id -> callback
    pdfCallbackStorage,  \* [instance -> this.pdfCallbackStorage], id -> pair
    calls,               \* the render / generatePDF calls made, in order
    hist,                \* per call: the runs of each of its callbacks (the iter of the
                         \* message that caused the run, the text passed to onPdfError)
    promise,             \* per call: the awaitable generatePDF returned
    iframes,             \* the iframes attached to the document, in order
    inbox,               \* messages posted to the window, not yet dispatched
    eventListeners,      \* the events the host page listens for on the window
    received             \* the events the host page's listeners were handed, in order

vars == <<hasWindow, sdkCount, listeners, instanceCounter, callbackStorage,
          pdfCallbackStorage, calls, hist, promise, iframes, inbox,
          eventListeners, received>>

\* ------------------------------------------------------- object helpers
\* JS objects used as maps: a function whose domain is the set of keys.
EmptyObject == <<>>
Put(obj, key, value) ==
    [k \in (DOMAIN obj) \cup {key} |-> IF k = key THEN value ELSE obj[k]]
Delete(obj, key) == [k \in (DOMAIN obj) \ {key} |-> obj[k]]
Lookup(obj, key) == IF key \in DOMAIN obj THEN obj[key] ELSE None

\* ----------------------------------------------------------- constructor
Construct ==
    /\ sdkCount < MaxSDK
    /\ sdkCount' = sdkCount + 1
    /\ instanceCounter' = Append(instanceCounter, InitialCounter)
    /\ callbackStorage' = Append(callbackStorage, EmptyObject)
    /\ pdfCallbackStorage' = Append(pdfCallbackStorage, EmptyObject)
    /\ listeners' = IF hasWindow THEN listeners \cup {sdkCount + 1} ELSE listeners
    /\ UNCHANGED <<hasWindow, eventListeners, received, calls, hist, promise, iframes, inbox>>

\* The state after the module is loaded: const pagify = new PagifySDK().
Init ==
    /\ hasWindow \in BOOLEAN
    /\ sdkCount = 1
    /\ listeners = IF hasWindow THEN {1} ELSE {}
    /\ instanceCounter = <<InitialCounter>>
    /\ callbackStorage = <<EmptyObject>>
    /\ pdfCallbackStorage = <<EmptyObject>>
    /\ calls = <<>>
    /\ hist = <<>>
    /\ promise = <<>>
    /\ iframes = <<>>
    /\ inbox = <<>>
    /\ eventListeners = {}
    /\ received = <<>>

\* ------------------------------------------------------ Document Composer
\* `${instanceId}` in a template literal: the number written in decimal,
\* most significant digit first.
RECURSIVE NumberToString(_)
NumberToString(n) ==
    IF n < 10 THEN <<n>> ELSE Append(NumberToString(n \div 10), n % 10)

\* The numeric literal the iframe's script engine reads back.
RECURSIVE NumberLiteral(_)
NumberLiteral(digits) ==
    IF digits = <<>> THEN 0
    ELSE 10 * NumberLiteral(SubSeq(digits, 1, Len(digits) - 1)) + digits[Len(digits)]

\* The iter each postMessage call of the init script carries.
getPagedJSInitScript(instanceId) ==
    [renderpdf |-> NumberToString(instanceId),
     PDF_ERROR |-> NumberToString(instanceId)]

\* Mutant: the conversion script is built around the counter as it stands
\* after the increment, not around the id that was allocated.
getPdfGenerationScriptStale(instanceId) ==
    [PDF_READY |-> NumberToString(instanceId + 1),
     PDF_ERROR |-> NumberToString(instanceId + 1)]

\* The iter each postMessage call of generatePdfBlob carries.
getPdfGenerationScript(instanceId) ==
    [PDF_READY |-> NumberToString(instanceId),
     PDF_ERROR |-> NumberToString(instanceId)]

\* Mutant: the footer is written at both places, whatever the flag.
bodyRegionsBoth(footer_only_on_last_page) ==
    <<"header", "footer", "body", "footer">>

\* The regions of <body>, in document order: the header, the footer when it
\* is not kept for the last page, the body content, the footer when it is.
bodyRegions(footer_only_on_last_page) ==
    <<"header">>
    \o (IF footer_only_on_last_page THEN <<>> ELSE <<"footer">>)
    \o <<"body">>
    \o (IF footer_only_on_last_page THEN <<"footer">> ELSE <<>>)

buildIframeHTML(instanceId, footer_only_on_last_page) ==
    [init |-> getPagedJSInitScript(instanceId),
     pdf |-> getPdfGenerationScript(instanceId),
     body |-> bodyRegions(footer_only_on_last_page)]

\* ------------------------------------------------- Execution Host Adapter
createIframe(containerSelector) ==
    IF containerSelector # SelNone
    THEN [width |-> "100%", height |-> "100%", border |-> "none",
          position |-> "", top |-> "", left |-> ""]
    ELSE [width |-> "", height |-> "", border |-> "none",
          position |-> "absolute", top |-> "-9999px", left |-> "-9999px"]

\* Mutant: the iframe always goes to document.body.
getContainerBody(containerSelector) == "body"

\* The node the iframe is appended to: what the selector matches, else
\* document.body.
getContainer(containerSelector) ==
    IF containerSelector = SelFound THEN "container" ELSE "body"

\* Mutant: the fallback to document.body is silent.
getContainerWarningsNone(containerSelector) == <<>>

\* console.warn of getContainer: one warning, naming the selector, when the
\* selector matches no node.
getContainerWarnings(containerSelector) ==
    IF containerSelector = SelMissing
    THEN <<[level |-> "warn", selector |-> containerSelector, target |-> "body"]>>
    ELSE <<>>

\* Mutant: the iframe is attached a second time, as a second node.
appendChildTwice(children, iframe) == Append(Append(children, iframe), iframe)

\* container.appendChild(iframe)
appendChild(children, iframe) == Append(children, iframe)

\* error.message of what the mount stage throws, "" when it throws nothing:
\* without a window there is no document (createIframe throws), and
\* document.querySelector throws on a string that is no selector.
MountFailure(containerSelector) ==
    IF ~hasWindow THEN "document is not defined"
    ELSE IF containerSelector = SelInvalid THEN "not a valid selector"
    ELSE ""

\* ------------------------------------------------------ Instance Registry
NextCounter(counter) == counter + 1

\* Mutant: the counter is incremented before it is read (++instanceCounter).
StoreCallbackNext(storage, instanceId, callback) == Put(storage, instanceId + 1, callback)

StoreCallback(storage, instanceId, callback) == Put(storage, instanceId, callback)

\* Mutant: the pair is stored whether or not a pdf callback was given.
StorePdfCallbacksAlways(storage, instanceId, onPdfReady, onPdfError) ==
    Put(storage, instanceId, [onPdfReady |-> onPdfReady, onPdfError |-> onPdfError])

StorePdfCallbacks(storage, instanceId, onPdfReady, onPdfError) ==
    IF onPdfReady # None \/ onPdfError # None
    THEN Put(storage, instanceId, [onPdfReady |-> onPdfReady, onPdfError |-> onPdfError])
    ELSE storage

\* --------------------------------------------------------------- promises
NoPromise == [state |-> "none", reason |-> "", fetches |-> 0, blobs |-> 0]
NewPromise == [state |-> "pending", reason |-> "", fetches |-> 0, blobs |-> 0]

\* Mutant: every resolve / reject call overwrites the promise's state.
SettleOverwrite(p, state, reason) ==
    [p EXCEPT !.state = state, !.reason = reason]

\* resolve / reject of a promise: the first call settles it, later calls do nothing.
Settle(p, state, reason) ==
    IF p.state = "pending" THEN [p EXCEPT !.state = state, !.reason = reason] ELSE p

\* ------------------------------------------------------------------ render
\* A closure supplied by call n is written n; None when not supplied.
Closure(supplied, n) == IF supplied THEN n ELSE None

\* The options object the host passes, with render's defaults for the keys
\* it reads.  isViewOnlySkipMakingPDF and onPreviewReady are keys the host may
\* set; render's parameter list does not name them.
DefaultOptions ==
    [callback |-> FALSE, onPdfReady |-> FALSE, onPdfError |-> FALSE,
     containerSelector |-> SelNone, footer_only_on_last_page |-> FALSE,
     isViewOnlySkipMakingPDF |-> FALSE, onPreviewReady |-> FALSE]

NoRuns == [callback |-> <<>>, onPdfReady |-> <<>>, onPdfError |-> <<>>, onPreviewReady |-> <<>>]

\* The body of render's try block and its catch, for call number n made on
\* instance s with options o.  kind is "render" or "generatePDF" (render
\* called by generatePDF with its own onPdfReady / onPdfError).
RenderBody(s, kind, o) ==
    LET n == Len(calls) + 1
        instanceId == instanceCounter[s]
        failure == MountFailure(o.containerSelector)
        created == [call |-> n,
                    srcdoc |-> None,
                    srcdocWrites |-> 0,
                    style |-> createIframe(o.containerSelector),
                    parent |-> None,
                    pc |-> "loading",
                    posted |-> <<>>,
                    failedAt |-> "",
                    totalPages |-> 0,
                    pageCount |-> 0,
                    pdfPages |-> <<>>]
        \* iframe.srcdoc = iframeHTML, then the container is looked up
        iframe == [created EXCEPT
                     !.srcdoc = buildIframeHTML(instanceId, o.footer_only_on_last_page),
                     !.srcdocWrites = @ + 1,
                     !.parent = getContainer(o.containerSelector)]
        \* the catch block: onPdfError(error.message), called by no message
        errorCalls == IF failure # "" /\ o.onPdfError
                      THEN <<[iter |-> None, text |-> failure]>> ELSE <<>>
    IN
    /\ instanceCounter' = [instanceCounter EXCEPT ![s] = NextCounter(@)]
    /\ callbackStorage' =
         [callbackStorage EXCEPT ![s] = StoreCallback(@, instanceId, Closure(o.callback, n))]
    /\ pdfCallbackStorage' =
         [pdfCallbackStorage EXCEPT ![s] =
            StorePdfCallbacks(@, instanceId, Closure(o.onPdfReady, n), Closure(o.onPdfError, n))]
    /\ iframes' = IF failure = "" THEN appendChild(iframes, iframe) ELSE iframes
    /\ calls' = Append(calls,
         [kind |-> kind, sdk |-> s, options |-> TRUE, id |-> instanceId,
          callback |-> o.callback, onPdfReady |-> o.onPdfReady, onPdfError |-> o.onPdfError,
          containerSelector |-> o.containerSelector,
          footer_only_on_last_page |-> o.footer_only_on_last_page,
          isViewOnlySkipMakingPDF |-> o.isViewOnlySkipMakingPDF,
          onPreviewReady |-> o.onPreviewReady,
          warnings |-> IF failure = "" THEN getContainerWarnings(o.containerSelector) ELSE <<>>,
          failure |-> failure,
          result |-> "fulfilled"])
    /\ hist' = Append(hist, [NoRuns EXCEPT !.onPdfError = errorCalls])
    /\ promise' = Append(promise,
         IF kind = "generatePDF"
         THEN IF failure # "" THEN Settle(NewPromise, "rejected", failure) ELSE NewPromise
         ELSE NoPromise)
    /\ UNCHANGED <<hasWindow, eventListeners, received, sdkCount, listeners, inbox>>

\* render(o), for any options object o.
RenderWith(s, o) ==
    /\ Len(calls) < MaxRender
    /\ RenderBody(s, "render", o)

Render(s, callback, onPdfReady, onPdfError, containerSelector) ==
    RenderWith(s, [DefaultOptions EXCEPT !.callback = callback, !.onPdfReady = onPdfReady,
                                         !.onPdfError = onPdfError,
                                         !.containerSelector = containerSelector])

\* render() / render(undefined) / render(null): destructuring the parameter
\* throws while binding the arguments, before the try block is entered, so
\* the async function's promise is rejected.
RenderNoOptions(s) ==
    /\ Len(calls) < MaxRender
    /\ calls' = Append(calls,
         [kind |-> "render", sdk |-> s, options |-> FALSE, id |-> None,
          callback |-> FALSE, onPdfReady |-> FALSE, onPdfError |-> FALSE,
          containerSelector |-> SelNone,
          footer_only_on_last_page |-> FALSE, isViewOnlySkipMakingPDF |-> FALSE,
          onPreviewReady |-> FALSE, warnings |-> <<>>,
          failure |-> "Cannot destructure", result |-> "rejected"])
    /\ hist' = Append(hist, NoRuns)
    /\ promise' = Append(promise, NoPromise)
    /\ UNCHANGED <<hasWindow, eventListeners, received, sdkCount, listeners, instanceCounter, callbackStorage,
                   pdfCallbackStorage, iframes, inbox>>

\* ------------------------------------------------------------- generatePDF
\* Mutant: generatePDF goes on to render whether a window exists or not.
generatePDFGuardAbsent == TRUE

\* typeof window === 'undefined' throws; otherwise the promise is built.
generatePDFGuard == hasWindow

GeneratePDF(s, callback, containerSelector) ==
    /\ Len(calls) < MaxRender
    /\ IF generatePDFGuard
       THEN RenderBody(s, "generatePDF",
                       [DefaultOptions EXCEPT !.callback = callback, !.onPdfReady = TRUE,
                                              !.onPdfError = TRUE,
                                              !.containerSelector = containerSelector])
       ELSE /\ calls' = Append(calls,
                 [kind |-> "generatePDF", sdk |-> s, options |-> TRUE, id |-> None,
                  callback |-> callback, onPdfReady |-> TRUE, onPdfError |-> TRUE,
                  containerSelector |-> containerSelector,
                  footer_only_on_last_page |-> FALSE, isViewOnlySkipMakingPDF |-> FALSE,
                  onPreviewReady |-> FALSE, warnings |-> <<>>,
                  failure |-> "Direct PDF generation is only available in browser environments",
                  result |-> "rejected"])
            /\ hist' = Append(hist, NoRuns)
            /\ promise' = Append(promise,
                 Settle(NewPromise, "rejected",
                        "Direct PDF generation is only available in browser environments"))
            /\ UNCHANGED <<hasWindow, eventListeners, received, sdkCount, listeners, instanceCounter,
                           callbackStorage, pdfCallbackStorage, iframes, inbox>>

\* The fetch of the blob URL that generatePDF's onPdfReady started ends.
FetchDone(n, ok) ==
    /\ n \in DOMAIN promise
    /\ promise[n].fetches > 0
    /\ promise' = [promise EXCEPT ![n] =
         IF ok
         THEN [Settle(@, "resolved", "") EXCEPT !.fetches = @ - 1, !.blobs = @ + 1]
         ELSE [Settle(@, "rejected", "Failed to fetch") EXCEPT !.fetches = @ - 1]]
    /\ UNCHANGED <<hasWindow, eventListeners, received, sdkCount, listeners, instanceCounter, callbackStorage,
                   pdfCallbackStorage, calls, hist, iframes, inbox>>

\* ------------------------------------------------------- isolated context
Message(type, iter, payload, source) ==
    [type |-> type, iter |-> iter, payload |-> payload, source |-> source]

\* Mutant: the try block posts PDF_ERROR where it posts renderpdf.
InitPostsError(ok) == "PDF_ERROR"

\* The type of the message the init script posts: renderpdf at the end of
\* the try block, PDF_ERROR in its catch.
InitPosts(ok) == IF ok THEN "renderpdf" ELSE "PDF_ERROR"

\* Mutant: generatePdfBlob() is called after the try / catch statement.
PcAfterPaginateConverting(ok) == "converting"

\* generatePdfBlob() is the last statement of the try block: the catch does
\* not reach it.
PcAfterPaginate(ok) == IF ok THEN "converting" ELSE "done"

\* document.fonts.ready.then(...): import Paged.js and run previewer.preview().
\* On success the script keeps result.total in totalPages, posts renderpdf and
\* calls generatePdfBlob(); on a failure its catch posts PDF_ERROR.
PaginatePages(i, ok, text, total) ==
    /\ i \in DOMAIN iframes
    /\ iframes[i].pc = "loading"
    /\ IF ok
       THEN /\ inbox' = Append(inbox,
                 Message(InitPosts(ok), NumberLiteral(iframes[i].srcdoc.init.renderpdf),
                         "", iframes[i].call))
            /\ iframes' = [iframes EXCEPT ![i].pc = PcAfterPaginate(ok),
                                          ![i].totalPages = total,
                                          ![i].posted = Append(@, InitPosts(ok))]
       ELSE /\ inbox' = Append(inbox,
                 Message(InitPosts(ok), NumberLiteral(iframes[i].srcdoc.init.PDF_ERROR),
                         "Failed to initialize Paged.js: " \o text, iframes[i].call))
            /\ iframes' = [iframes EXCEPT ![i].pc = PcAfterPaginate(ok),
                                          ![i].failedAt = "pagination",
                                          ![i].posted = Append(@, InitPosts(ok))]
    /\ UNCHANGED <<hasWindow, eventListeners, received, sdkCount, listeners, instanceCounter,
                   callbackStorage, pdfCallbackStorage, calls, hist, promise>>

\* Pagination of a one-page document.
Paginate(i, ok, text) == PaginatePages(i, ok, text, 1)

\* pdf.deletePage(i): the pages after page i move up by one.
deletePage(pdf, i) ==
    [k \in 1..(Len(pdf) - 1) |-> IF k < i THEN pdf[k] ELSE pdf[k + 1]]

\* Mutant: the loop runs while i >= totalPages.
RECURSIVE TrimLoopInclusive(_, _, _)
TrimLoopInclusive(pdf, i, totalPages) ==
    IF i >= totalPages
    THEN TrimLoopInclusive(deletePage(pdf, i), i - 1, totalPages)
    ELSE pdf

\* for (let i = pageCount; i > totalPages; i--) pdf.deletePage(i)
RECURSIVE TrimLoop(_, _, _)
TrimLoop(pdf, i, totalPages) ==
    IF i > totalPages
    THEN TrimLoop(deletePage(pdf, i), i - 1, totalPages)
    ELSE pdf

\* Mutant: the loop is entered whenever pageCount > totalPages.
trimPagesUnguarded(pdf, totalPages) ==
    LET pageCount == Len(pdf) IN
    IF pageCount > totalPages
    THEN TrimLoop(pdf, pageCount, totalPages)
    ELSE pdf

\* "Remove extra pages if necessary": pageCount = pdf.internal.getNumberOfPages().
\* A totalPages that was never set (undefined) compares false, as 0 does.
trimPages(pdf, totalPages) ==
    LET pageCount == Len(pdf) IN
    IF pageCount > totalPages /\ totalPages > 0
    THEN TrimLoop(pdf, pageCount, totalPages)
    ELSE pdf

\* The document html2pdf produces: pages 1..pageCount.
ConvertedPdf(pageCount) == [k \in 1..pageCount |-> k]

\* generatePdfBlob(): load html2pdf, convert the body, trim, output the blob
\* and post PDF_READY; any failure posts PDF_ERROR with error.message.
ConvertPages(i, ok, text, pageCount) ==
    /\ i \in DOMAIN iframes
    /\ iframes[i].pc = "converting"
    /\ inbox' = Append(inbox,
         IF ok
         THEN Message("PDF_READY", NumberLiteral(iframes[i].srcdoc.pdf.PDF_READY),
                      "blob:url", iframes[i].call)
         ELSE Message("PDF_ERROR", NumberLiteral(iframes[i].srcdoc.pdf.PDF_ERROR),
                      text, iframes[i].call))
    /\ iframes' = [iframes EXCEPT
         ![i].pc = "done",
         ![i].failedAt = IF ok THEN @ ELSE "conversion",
         ![i].pageCount = IF ok THEN pageCount ELSE @,
         ![i].pdfPages = IF ok THEN trimPages(ConvertedPdf(pageCount), iframes[i].totalPages)
                         ELSE @,
         ![i].posted = Append(@, IF ok THEN "PDF_READY" ELSE "PDF_ERROR")]
    /\ UNCHANGED <<hasWindow, eventListeners, received, sdkCount, listeners, instanceCounter,
                   callbackStorage, pdfCallbackStorage, calls, hist, promise>>

\* Conversion to a one-page document.
Convert(i, ok, text) == ConvertPages(i, ok, text, 1)

\* document.fonts.ready does not settle successfully (a script engine with no
\* document.fonts throws on the first statement): the callback given to
\* then() never runs and nothing catches the failure, so the script posts
\* nothing.
FontsFail(i) ==
    /\ i \in DOMAIN iframes
    /\ iframes[i].pc = "loading"
    /\ iframes' = [iframes EXCEPT ![i].pc = "stopped", ![i].failedAt = "fonts"]
    /\ UNCHANGED <<hasWindow, eventListeners, received, sdkCount, listeners, instanceCounter,
                   callbackStorage, pdfCallbackStorage, calls, hist, promise, inbox>>

\* The host page removes the iframe from the document (or navigates it away)
\* while its script has not finished: the script stops and posts no more.
\* The registries are left as they are: no code of the SDK observes this.
DestroyIframe(i) ==
    /\ i \in DOMAIN iframes
    /\ iframes[i].pc \in {"loading", "converting"}
    /\ iframes' = [iframes EXCEPT ![i].pc = "destroyed", ![i].parent = ""]
    /\ UNCHANGED <<hasWindow, eventListeners, received, sdkCount, listeners, instanceCounter,
                   callbackStorage, pdfCallbackStorage, calls, hist, promise, inbox>>

\* ------------------------------------------- Cross-Context Protocol Handler
\* One listener's handling of message m, against its own registries.

\* Mutant: the entry is deleted first and looked up afterwards.
CompletionInvokedAfterDelete(storage, m) ==
    IF m.type = "renderpdf" THEN Lookup(Delete(storage, m.iter), m.iter) ELSE None

\* renderpdf: the callback the listener calls (None: none).
CompletionInvoked(storage, m) ==
    IF m.type = "renderpdf" THEN Lookup(storage, m.iter) ELSE None

\* Mutant: every message with an iter deletes the completion entry.
CallbackStorageAnyType(storage, m) == Delete(storage, m.iter)

\* Mutant: the completion entry is left in place.
CallbackStorageKept(storage, m) == storage

\* renderpdf: delete this.callbackStorage[iter].
CallbackStorageAfter(storage, m) ==
    IF m.type = "renderpdf" THEN Delete(storage, m.iter) ELSE storage

\* PDF_READY: instanceId && this.pdfCallbackStorage[instanceId]?.onPdfReady
PdfReadyInvoked(pdfStorage, m) ==
    IF m.type = "PDF_READY" /\ m.iter # None /\ m.iter \in DOMAIN pdfStorage
    THEN pdfStorage[m.iter].onPdfReady
    ELSE None

\* PDF_ERROR: instanceId && this.pdfCallbackStorage[instanceId]?.onPdfError
PdfErrorInvoked(pdfStorage, m) ==
    IF m.type = "PDF_ERROR" /\ m.iter # None /\ m.iter \in DOMAIN pdfStorage
    THEN pdfStorage[m.iter].onPdfError
    ELSE None

\* Mutant: any PDF_READY / PDF_ERROR message empties the registry.
PdfCallbackStorageCleared(pdfStorage, m) ==
    IF m.type \in {"PDF_READY", "PDF_ERROR"} THEN EmptyObject ELSE pdfStorage

\* The pair is deleted in the branch that called one of its sides.
PdfCallbackStorageAfter(pdfStorage, m) ==
    IF PdfReadyInvoked(pdfStorage, m) # None \/ PdfErrorInvoked(pdfStorage, m) # None
    THEN Delete(pdfStorage, m.iter)
    ELSE pdfStorage

\* Mutant: the PDF_ERROR branch is a plain else.
EventDispatchedElse(m) ==
    IF m.type = "renderpdf" THEN ""
    ELSE IF m.type = "PDF_READY" THEN "pdfReady"
    ELSE "pdfError"

\* The global event one listener dispatches on the window for message m
\* ("" for none): pdfReady / pdfError, whether or not a pair is stored.
NoEvent == ""
EventDispatched(m) ==
    IF m.type = "PDF_READY" THEN "pdfReady"
    ELSE IF m.type = "PDF_ERROR" THEN "pdfError"
    ELSE NoEvent

\* Mutant: each listener dispatches the event twice.
EventsReceivedTwice(m) ==
    IF EventDispatched(m) \in eventListeners
    THEN [k \in 1..(2 * Cardinality(listeners)) |->
            [name |-> EventDispatched(m), detail |-> m.payload]]
    ELSE <<>>

\* What the host page's listeners for that event are handed: one event per
\* SDK listener, with detail { blobUrl } or { error }.
EventsReceived(m) ==
    IF EventDispatched(m) \in eventListeners
    THEN [k \in 1..Cardinality(listeners) |->
            [name |-> EventDispatched(m), detail |-> m.payload]]
    ELSE <<>>

\* The window dispatches message m to every attached listener, in turn.
Dispatch(m) ==
    LET completions == {CompletionInvoked(callbackStorage[s], m) : s \in listeners} \ {None}
        readies == {PdfReadyInvoked(pdfCallbackStorage[s], m) : s \in listeners} \ {None}
        errors == {PdfErrorInvoked(pdfCallbackStorage[s], m) : s \in listeners} \ {None}
    IN
    /\ callbackStorage' =
         [s \in DOMAIN callbackStorage |->
            IF s \in listeners THEN CallbackStorageAfter(callbackStorage[s], m)
            ELSE callbackStorage[s]]
    /\ pdfCallbackStorage' =
         [s \in DOMAIN pdfCallbackStorage |->
            IF s \in listeners THEN PdfCallbackStorageAfter(pdfCallbackStorage[s], m)
            ELSE pdfCallbackStorage[s]]
    /\ hist' =
         [n \in DOMAIN hist |->
            [callback |-> IF n \in completions THEN Append(hist[n].callback, m.iter)
                          ELSE hist[n].callback,
             onPdfReady |-> IF n \in readies THEN Append(hist[n].onPdfReady, m.iter)
                            ELSE hist[n].onPdfReady,
             onPdfError |-> IF n \in errors
                            THEN Append(hist[n].onPdfError, [iter |-> m.iter, text |-> m.payload])
                            ELSE hist[n].onPdfError,
             \* no branch of the listener calls onPreviewReady
             onPreviewReady |-> hist[n].onPreviewReady]]
    \* generatePDF's own onPdfReady starts the fetch of the blob URL, its
    \* onPdfError rejects with new Error(error).
    /\ promise' =
         [n \in DOMAIN promise |->
            IF calls[n].kind # "generatePDF" THEN promise[n]
            ELSE IF n \in readies THEN [promise[n] EXCEPT !.fetches = @ + 1]
            ELSE IF n \in errors THEN Settle(promise[n], "rejected", m.payload)
            ELSE promise[n]]
    \* window.dispatchEvent(new CustomEvent(...)), once per listener, reaches
    \* the host's listeners for that event.
    /\ received' = received \o EventsReceived(m)
    /\ UNCHANGED <<hasWindow, eventListeners, sdkCount, listeners, instanceCounter, calls, iframes>>

\* The oldest message an iframe posted is dispatched.
Deliver ==
    /\ inbox # <<>>
    /\ Dispatch(Head(inbox))
    /\ inbox' = Tail(inbox)

\* A message event from another script (any origin, any window) is
\* dispatched: the listener checks neither event.origin nor event.source.
\* Such a message may be posted at any time, so it is dispatched ahead of
\* whatever the iframes post later.
ForeignMessage(type, iter) ==
    /\ hasWindow
    /\ Dispatch(Message(type, iter, "forged", None))
    /\ UNCHANGED inbox

\* Another script posts a message to the window; it is queued behind what
\* has been posted so far.
PostForeign(type, iter) ==
    /\ hasWindow
    /\ Len(inbox) + Len(received) < MaxQueue
    /\ inbox' = Append(inbox, Message(type, iter, "forged", None))
    /\ UNCHANGED <<hasWindow, eventListeners, received, sdkCount, listeners, instanceCounter,
                   callbackStorage, pdfCallbackStorage, calls, hist, promise, iframes>>

\* The host page calls window.addEventListener('pdfReady' | 'pdfError', ...).
AddEventListener(name) ==
    /\ hasWindow
    /\ name \notin eventListeners
    /\ eventListeners' = eventListeners \cup {name}
    /\ UNCHANGED <<hasWindow, received, sdkCount, listeners, instanceCounter, callbackStorage,
                   pdfCallbackStorage, calls, hist, promise, iframes, inbox>>

\* ------------------------------------------------------------------ inputs
\* The option objects the host passes to render: which of callback,
\* onPdfReady and onPdfError it supplies (all, the error callback alone,
\* none), with a containerSelector that mounts or throws.
CallbackShapes == {<<TRUE, TRUE, TRUE>>, <<FALSE, FALSE, TRUE>>, <<FALSE, FALSE, FALSE>>}
RenderOptions ==
    {[callback |-> c[1], onPdfReady |-> c[2], onPdfError |-> c[3], containerSelector |-> sel] :
        c \in CallbackShapes, sel \in Selectors}

\* The iter values another script's message may carry: falsy, or an id the
\* SDK allocates within the bound.
ForeignIters == 0..MaxRender

\* ------------------------------------------------------------------- spec
\* The host page uses the module's singleton, pagify, through render.
Next ==
    \/ \E o \in RenderOptions :
          Render(1, o.callback, o.onPdfReady, o.onPdfError, o.containerSelector)
    \/ RenderNoOptions(1)
    \/ \E i \in DOMAIN iframes, text \in EngineErrors : Paginate(i, FALSE, text)
    \/ \E i \in DOMAIN iframes : Paginate(i, TRUE, "")
    \/ \E i \in DOMAIN iframes, text \in EngineErrors : Convert(i, FALSE, text)
    \/ \E i \in DOMAIN iframes : Convert(i, TRUE, "")
    \/ \E type \in MessageTypes, iter \in ForeignIters : ForeignMessage(type, iter)
    \/ Deliver

Spec == Init /\ [][Next]_vars

\* The host page also constructs PagifySDK instances of its own and renders
\* through any of them, supplying every callback.
NextInstances ==
    \/ Construct
    \/ \E s \in 1..sdkCount : Render(s, TRUE, TRUE, TRUE, SelNone)
    \/ \E i \in DOMAIN iframes : Paginate(i, TRUE, "")
    \/ \E i \in DOMAIN iframes : Paginate(i, FALSE, "engine failed")
    \/ \E i \in DOMAIN iframes : Convert(i, TRUE, "")
    \/ Deliver

SpecInstances == Init /\ [][NextInstances]_vars

\* The host page renders through the singleton with every callback supplied
\* and its iframes run to the end, while other scripts post messages of
\* every type, for every id, at any time.
NextHandler ==
    \/ Render(1, TRUE, TRUE, TRUE, SelNone)
    \/ \E i \in DOMAIN iframes : Paginate(i, TRUE, "")
    \/ \E i \in DOMAIN iframes : Convert(i, TRUE, "")
    \/ \E type \in MessageTypes, iter \in ForeignIters : ForeignMessage(type, iter)
    \/ Deliver

SpecHandler == Init /\ [][NextHandler]_vars

\* The host page asks the singleton for the PDF itself, through generatePDF
\* (with no completion callback in the options), while other scripts post
\* result messages.
NextGenerate ==
    \/ \E containerSelector \in Selectors : GeneratePDF(1, FALSE, containerSelector)
    \/ \E n \in DOMAIN promise, ok \in BOOLEAN : FetchDone(n, ok)
    \/ \E i \in DOMAIN iframes : Paginate(i, TRUE, "")
    \/ \E i \in DOMAIN iframes : Convert(i, TRUE, "")
    \/ \E i \in DOMAIN iframes : Convert(i, FALSE, "engine failed")
    \/ \E type \in {"PDF_READY", "PDF_ERROR"}, iter \in 1..MaxRender : ForeignMessage(type, iter)
    \/ Deliver

SpecGenerate == Init /\ [][NextGenerate]_vars

\* The host page renders through the singleton with every kind of
\* containerSelector (absent, matching, matching nothing, no selector at all)
\* and the iframes run to the end.
NextMount ==
    \/ \E containerSelector \in AllSelectors :
          RenderWith(1, [DefaultOptions EXCEPT !.onPdfError = TRUE,
                                               !.containerSelector = containerSelector])
    \/ \E i \in DOMAIN iframes : Paginate(i, TRUE, "")
    \/ \E i \in DOMAIN iframes : Convert(i, TRUE, "")
    \/ Deliver

SpecMount == Init /\ [][NextMount]_vars

\* The host page renders through the singleton with either footer placement,
\* asking for the PDF or (as the README describes) for the preview alone.
NextOptions ==
    \/ \E footer_only_on_last_page \in BOOLEAN, isViewOnlySkipMakingPDF \in BOOLEAN :
          RenderWith(1, [DefaultOptions EXCEPT
                           !.onPdfReady = TRUE, !.onPdfError = TRUE,
                           !.footer_only_on_last_page = footer_only_on_last_page,
                           !.isViewOnlySkipMakingPDF = isViewOnlySkipMakingPDF,
                           !.onPreviewReady = isViewOnlySkipMakingPDF])
    \/ \E i \in DOMAIN iframes : Paginate(i, TRUE, "")
    \/ \E i \in DOMAIN iframes : Paginate(i, FALSE, "engine failed")
    \/ \E i \in DOMAIN iframes : Convert(i, TRUE, "")
    \/ Deliver

SpecOptions == Init /\ [][NextOptions]_vars

\* The page counts pagination reports (0: nothing reported) and conversion
\* produces.
PageTotals == 0..MaxPages
PageCounts == 1..MaxPages

\* The host page renders through the singleton; pagination reports any
\* total and conversion produces any number of pages.
NextPages ==
    \/ Render(1, FALSE, FALSE, FALSE, SelNone)
    \/ \E i \in DOMAIN iframes, total \in PageTotals : PaginatePages(i, TRUE, "", total)
    \/ \E i \in DOMAIN iframes, pageCount \in PageCounts : ConvertPages(i, TRUE, "", pageCount)
    \/ Deliver

SpecPages == Init /\ [][NextPages]_vars

\* The host page listens for the global pdfReady / pdfError events and
\* renders through the singleton, while other scripts post messages of known
\* types, of an unknown type and with no type, carrying the id of the first
\* call.
EventNames == {"pdfReady", "pdfError"}
PostedTypes == {"PDF_ERROR", "other", NoType}
PostedIters == {InitialCounter}

NextEvents ==
    \/ \E name \in EventNames : AddEventListener(name)
    \/ Render(1, TRUE, TRUE, TRUE, SelNone)
    \/ \E i \in DOMAIN iframes : Paginate(i, TRUE, "")
    \/ \E i \in DOMAIN iframes : Convert(i, TRUE, "")
    \/ \E type \in PostedTypes, iter \in PostedIters : PostForeign(type, iter)
    \/ Deliver

SpecEvents == Init /\ [][NextEvents]_vars

\* The host page renders through the singleton with every shape of callbacks
\* (all, the error callback alone, none); pagination and conversion each end
\* well or fail.
NextRegistry ==
    \/ \E c \in CallbackShapes : Render(1, c[1], c[2], c[3], SelNone)
    \/ \E i \in DOMAIN iframes : Paginate(i, TRUE, "")
    \/ \E i \in DOMAIN iframes : Paginate(i, FALSE, "engine failed")
    \/ \E i \in DOMAIN iframes : Convert(i, TRUE, "")
    \/ \E i \in DOMAIN iframes : Convert(i, FALSE, "engine failed")
    \/ Deliver

SpecRegistry == Init /\ [][NextRegistry]_vars

\* The host page renders through the singleton with every callback; an
\* iframe's script may fail at any of its steps, the host may remove an
\* iframe before its script ends, and another script may post a renderpdf
\* message with the id of the first call.
NextLifecycle ==
    \/ Render(1, TRUE, TRUE, TRUE, SelNone)
    \/ \E i \in DOMAIN iframes : FontsFail(i)
    \/ \E i \in DOMAIN iframes : DestroyIframe(i)
    \/ \E i \in DOMAIN iframes : Paginate(i, TRUE, "")
    \/ \E i \in DOMAIN iframes : Paginate(i, FALSE, "engine failed")
    \/ \E i \in DOMAIN iframes : Convert(i, TRUE, "")
    \/ \E i \in DOMAIN iframes : Convert(i, FALSE, "engine failed")
    \/ PostForeign("renderpdf", InitialCounter)
    \/ Deliver

SpecLifecycle == Init /\ [][NextLifecycle]_vars

\* The host page renders through the singleton with every shape of callbacks
\* and a containerSelector that mounts or throws; the iframes run to the end.
NextStore ==
    \/ \E o \in RenderOptions :
          Render(1, o.callback, o.onPdfReady, o.onPdfError, o.containerSelector)
    \/ \E i \in DOMAIN iframes : Paginate(i, TRUE, "")
    \/ \E i \in DOMAIN iframes : Convert(i, TRUE, "")
    \/ Deliver

SpecStore == Init /\ [][NextStore]_vars

\* The same page with the event loop running: a render that was called
\* returns, an iframe's script that can run does, a queued message is
\* dispatched.
SpecMountFair == SpecMount /\ WF_vars(NextMount)

\* ------------------------------------------------------------------ claims
\* The ids a document embeds, as its script reads them.
EmbeddedIters(doc) ==
    {NumberLiteral(doc.init.renderpdf), NumberLiteral(doc.init.PDF_ERROR),
     NumberLiteral(doc.pdf.PDF_READY), NumberLiteral(doc.pdf.PDF_ERROR)}

\* The keys under which a callback supplied by call n is stored.
StoredUnder(n) ==
    UNION {
        {k \in DOMAIN callbackStorage[s] : callbackStorage[s][k] = n}
        \cup {k \in DOMAIN pdfCallbackStorage[s] :
                 \/ pdfCallbackStorage[s][k].onPdfReady = n
                 \/ pdfCallbackStorage[s][k].onPdfError = n}
        : s \in DOMAIN callbackStorage}

\* The messages of iframe call n that are still queued.
QueuedFrom(n) == {j \in DOMAIN inbox : inbox[j].source = n}

\* C1: the id given to a render invocation is greater than the id of every
\* earlier invocation of the process, so no two invocations share an id.
C1_IdsStrictlyIncreasing ==
    \A m, n \in DOMAIN calls :
        (m < n /\ calls[m].id # None /\ calls[n].id # None) => calls[m].id < calls[n].id

\* C2: every iter an iframe's document embeds (renderpdf, PDF_READY, both
\* PDF_ERROR posts), and the iter of every message it has posted, is the id
\* under which render stored that invocation's callbacks.
C2_CorrelationIntegrity ==
    /\ \A i \in DOMAIN iframes :
          \A k \in StoredUnder(iframes[i].call) : EmbeddedIters(iframes[i].srcdoc) = {k}
    /\ \A j \in DOMAIN inbox :
          inbox[j].source # None =>
             \A k \in StoredUnder(inbox[j].source) : inbox[j].iter = k

C2_Witness ==
    \E i \in DOMAIN iframes :
        /\ StoredUnder(iframes[i].call) # {}
        /\ QueuedFrom(iframes[i].call) # {}
        /\ iframes[i].pc = "done"

\* C3: a completion callback runs at most once, whatever messages arrive,
\* duplicate and late renderpdf messages with its id included.
C3_CompletionAtMostOnce ==
    \A n \in DOMAIN hist : Len(hist[n].callback) <= 1

\* The callback has run and a further renderpdf with the same id is queued.
C3_Witness ==
    \E n \in DOMAIN hist :
        /\ Len(hist[n].callback) = 1
        /\ \E j \in DOMAIN inbox :
              inbox[j].type = "renderpdf" /\ inbox[j].iter = calls[n].id

\* The iframe attached for call n has run to its end in failure and every
\* message it posted has been dispatched.
PipelineFailed(n) ==
    \E i \in DOMAIN iframes :
        /\ iframes[i].call = n
        /\ iframes[i].pc = "done"
        /\ iframes[i].posted[Len(iframes[i].posted)] = "PDF_ERROR"
        /\ QueuedFrom(n) = {}

\* C4: for every invocation, onPdfReady and onPdfError together run at most
\* once, over any sequence of messages and render's own failure path.
C4_PdfCallbacksAtMostOnce ==
    \A n \in DOMAIN hist : Len(hist[n].onPdfReady) + Len(hist[n].onPdfError) <= 1

\* C5: a render call that supplies onPdfError alone and whose pipeline fails
\* has onPdfError run exactly once, with a non-empty message, and no other
\* callback of that id run.
C5_ErrorOnlyCallReportedOnce ==
    \A n \in DOMAIN calls :
        (/\ calls[n].kind = "render"
         /\ calls[n].onPdfError /\ ~calls[n].onPdfReady /\ ~calls[n].callback
         /\ PipelineFailed(n))
        => /\ Len(hist[n].onPdfError) = 1
           /\ hist[n].onPdfError[1].text # ""
           /\ hist[n].onPdfReady = <<>>
           /\ hist[n].callback = <<>>

\* C6: render never rejects: every failure is caught, the awaitable is
\* fulfilled, and onPdfError (if supplied) has received the failure message.
C6_RenderNeverRejects ==
    \A n \in DOMAIN calls :
        calls[n].kind = "render" =>
            /\ calls[n].result = "fulfilled"
            /\ (calls[n].failure # "" /\ calls[n].onPdfError) =>
                  \E j \in DOMAIN hist[n].onPdfError :
                      hist[n].onPdfError[j].text = calls[n].failure

\* Once settled, a promise keeps its state and its reason.
C7_SettledStays ==
    \A n \in DOMAIN promise :
        promise[n].state \in {"resolved", "rejected"} =>
            /\ promise'[n].state = promise[n].state
            /\ promise'[n].reason = promise[n].reason

\* Resolved: onPdfReady ran for a PDF_READY carrying the call's own id and a
\* fetch of the blob URL produced a blob.
C7_ResolvedAfterBlob ==
    \A n \in DOMAIN promise :
        promise[n].state = "resolved" =>
            /\ hist[n].onPdfReady # <<>>
            /\ \A j \in DOMAIN hist[n].onPdfReady : hist[n].onPdfReady[j] = calls[n].id
            /\ promise[n].blobs >= 1

\* A failed mount, or an onPdfError run, leaves the promise rejected with the
\* text of the first failure (or settled earlier by a PDF_READY's fetch).
C7_RejectedWithText ==
    \A n \in DOMAIN promise :
        calls[n].kind = "generatePDF" =>
            /\ calls[n].failure # "" =>
                  promise[n].state = "rejected" /\ promise[n].reason = calls[n].failure
            /\ (hist[n].onPdfError # <<>> /\ hist[n].onPdfReady = <<>>) =>
                  /\ promise[n].state = "rejected"
                  /\ promise[n].reason = hist[n].onPdfError[1].text

\* Dispatching an iframe's PDF_ERROR with the id of a call whose promise is
\* pending and whose pair is still stored rejects it with the message's text.
C7_ErrorMessageRejects ==
    (inbox # <<>> /\ inbox' = Tail(inbox) /\ Head(inbox).type = "PDF_ERROR") =>
        \A n \in DOMAIN promise :
            (/\ calls[n].kind = "generatePDF"
             /\ calls[n].id = Head(inbox).iter
             /\ promise[n].state = "pending"
             /\ calls[n].id \in DOMAIN pdfCallbackStorage[calls[n].sdk])
            => /\ promise'[n].state = "rejected"
               /\ promise'[n].reason = Head(inbox).payload

\* C7: the awaitable of generatePDF settles at most once; it resolves only
\* after a PDF_READY for its own id was handled and the blob URL was fetched
\* into a blob; it rejects with the message text when a PDF_ERROR for its id
\* is handled or when render's mount stage fails.
C7_GeneratePDFSettlement ==
    /\ [](C7_ResolvedAfterBlob /\ C7_RejectedWithText)
    /\ [][C7_SettledStays /\ C7_ErrorMessageRejects]_vars

\* One call resolved with its blob, another rejected by its iframe's PDF_ERROR.
C7_Witness ==
    \E m, n \in DOMAIN promise :
        /\ promise[m].state = "resolved" /\ promise[m].blobs >= 1
        /\ promise[n].state = "rejected"
        /\ hist[n].onPdfError = <<[iter |-> calls[n].id, text |-> "engine failed"]>>

NoEntryFor(s, m) ==
    IF m.type = "renderpdf" THEN m.iter \notin DOMAIN callbackStorage[s]
    ELSE m.iter \notin DOMAIN pdfCallbackStorage[s]

\* Whatever renderpdf / PDF_READY / PDF_ERROR message arrives (falsy iter, an
\* id in use elsewhere, an id never allocated): with no entry for it the
\* handler calls nothing and leaves both registries as they are.
C9_HandlerDrops ==
    \A s \in listeners, type \in {"renderpdf", "PDF_READY", "PDF_ERROR"},
       iter \in 0..(MaxRender + 1) :
        LET m == Message(type, iter, "forged", None) IN
        NoEntryFor(s, m) =>
            /\ CompletionInvoked(callbackStorage[s], m) = None
            /\ PdfReadyInvoked(pdfCallbackStorage[s], m) = None
            /\ PdfErrorInvoked(pdfCallbackStorage[s], m) = None
            /\ CallbackStorageAfter(callbackStorage[s], m) = callbackStorage[s]
            /\ PdfCallbackStorageAfter(pdfCallbackStorage[s], m) = pdfCallbackStorage[s]

\* Dispatching a queued message no listener holds an entry for changes
\* nothing but the queue.
C9_DroppedStep ==
    (/\ inbox # <<>> /\ inbox' = Tail(inbox)
     /\ Head(inbox).type \in {"renderpdf", "PDF_READY", "PDF_ERROR"}
     /\ \A s \in listeners : NoEntryFor(s, Head(inbox)))
    => UNCHANGED <<hist, promise, instanceCounter, callbackStorage, pdfCallbackStorage>>

\* C9: handling a renderpdf, PDF_READY or PDF_ERROR message whose id is
\* unknown or already resolved does nothing: no stored callback runs and the
\* id counter and both registries are unchanged.
C9_UnknownIdIsNoOp ==
    /\ []C9_HandlerDrops
    /\ [][C9_DroppedStep]_vars

\* A call whose completion callback and onPdfError were run by another
\* script's messages, and whose iframe's own renderpdf and PDF_READY were
\* dispatched afterwards and dropped.
C9_Witness ==
    \E n \in DOMAIN hist, i \in DOMAIN iframes :
        /\ iframes[i].call = n
        /\ iframes[i].posted = <<"renderpdf", "PDF_READY">>
        /\ QueuedFrom(n) = {}
        /\ hist[n].onPdfError = <<[iter |-> calls[n].id, text |-> "forged"]>>
        /\ hist[n].onPdfReady = <<>>
        /\ Len(hist[n].callback) = 1
        /\ StoredUnder(n) = {}

\* The keys some callback of call n is stored under after the step.
StoredUnderNext(n) ==
    UNION {
        {k \in DOMAIN callbackStorage'[s] : callbackStorage'[s][k] = n}
        \cup {k \in DOMAIN pdfCallbackStorage'[s] :
                 \/ pdfCallbackStorage'[s][k].onPdfReady = n
                 \/ pdfCallbackStorage'[s][k].onPdfError = n}
        : s \in DOMAIN callbackStorage'}

\* Dispatching a message the iframe of one call posted runs no callback of
\* any other call and removes no entry of any other call.
C10_OthersUntouched ==
    (inbox # <<>> /\ inbox' = Tail(inbox) /\ Head(inbox).source # None) =>
        \A n \in DOMAIN calls :
            n # Head(inbox).source =>
                /\ hist'[n] = hist[n]
                /\ StoredUnderNext(n) = StoredUnder(n)

\* C10: with several invocations in flight, under every interleaving of their
\* messages, a message of one invocation runs only that invocation's
\* callbacks and removes only its entries; every other in-flight invocation
\* is untouched.
C10_Isolation == [][C10_OthersUntouched]_vars

\* The iframes attached for call n.
IframesOf(n) == {i \in DOMAIN iframes : iframes[i].call = n}

\* C11: with a container selector that matches a node, the iframe is sized
\* 100% by 100% with no border and is a child of that node, not of the body.
C11_MountedInContainer ==
    \A i \in DOMAIN iframes :
        calls[iframes[i].call].containerSelector = SelFound =>
            /\ iframes[i].style.width = "100%"
            /\ iframes[i].style.height = "100%"
            /\ iframes[i].style.border = "none"
            /\ iframes[i].parent = "container"

C11_Witness ==
    \E i \in DOMAIN iframes :
        calls[iframes[i].call].containerSelector = SelFound /\ iframes[i].pc = "done"

\* C12: with no container selector, or one that matches no node, the iframe
\* is placed off-screen (absolute, top and left -9999px) and attached to the
\* document body.
C12_OffScreenOnBody ==
    \A i \in DOMAIN iframes :
        calls[iframes[i].call].containerSelector \in {SelNone, SelMissing} =>
            /\ iframes[i].style.position = "absolute"
            /\ iframes[i].style.top = "-9999px"
            /\ iframes[i].style.left = "-9999px"
            /\ iframes[i].parent = "body"

\* C13: a render call (in a page) whose container selector matches nothing
\* still attaches its iframe, to the body, is fulfilled, and warns exactly
\* once, naming the selector.
C13_MissingContainerWarnsOnce ==
    \A n \in DOMAIN calls :
        (hasWindow /\ calls[n].kind = "render" /\ calls[n].containerSelector = SelMissing) =>
            /\ Cardinality(IframesOf(n)) = 1
            /\ \A i \in IframesOf(n) : iframes[i].parent = "body"
            /\ calls[n].result = "fulfilled"
            /\ Len(calls[n].warnings) = 1
            /\ calls[n].warnings[1].level = "warn"
            /\ calls[n].warnings[1].selector = SelMissing

C13_Witness ==
    \E n \in DOMAIN calls :
        hasWindow /\ calls[n].containerSelector = SelMissing /\ IframesOf(n) # {}

\* C14: every render that does not fail attaches exactly one iframe, whose
\* srcdoc was assigned once, with the document composed for that call, before
\* it was attached; n such renders leave exactly n iframes attached.
C14_OneIframePerRender ==
    /\ \A n \in DOMAIN calls :
          IF calls[n].failure = ""
          THEN /\ Cardinality(IframesOf(n)) = 1
               /\ \A i \in IframesOf(n) :
                     /\ iframes[i].srcdocWrites = 1
                     /\ iframes[i].srcdoc =
                           buildIframeHTML(calls[n].id, calls[n].footer_only_on_last_page)
          ELSE IframesOf(n) = {}
    /\ Len(iframes) = Cardinality({n \in DOMAIN calls : calls[n].failure = ""})

\* A render that attached its iframe and a render whose mount stage threw.
C14_Witness ==
    /\ Len(iframes) >= 1
    /\ \E m, n \in DOMAIN calls : calls[m].failure = "" /\ calls[n].failure # ""

\* The places of the footer regions and of the body content in a document.
FooterPlaces(doc) == {k \in DOMAIN doc.body : doc.body[k] = "footer"}
BodyPlaces(doc) == {k \in DOMAIN doc.body : doc.body[k] = "body"}

\* C15: the composed document has exactly one footer region: before the body
\* content (and none after it) when footer_only_on_last_page is false, after
\* the body content (and none before it) when it is true.
C15_OneFooterRegion ==
    \A i \in DOMAIN iframes :
        LET doc == iframes[i].srcdoc
            flag == calls[iframes[i].call].footer_only_on_last_page
        IN /\ Cardinality(FooterPlaces(doc)) = 1
           /\ Cardinality(BodyPlaces(doc)) = 1
           /\ \A f \in FooterPlaces(doc), b \in BodyPlaces(doc) :
                 IF flag THEN f > b ELSE f < b

\* Both placements have been composed.
C15_Witness ==
    \E i, j \in DOMAIN iframes :
        /\ calls[iframes[i].call].footer_only_on_last_page
        /\ ~calls[iframes[j].call].footer_only_on_last_page

\* C16: when conversion produced c pages and pagination's total is t with
\* c > t > 0, trimming deletes exactly the c - t trailing pages: the final
\* document is the first t pages of what conversion produced.
C16_TrimsToTotal ==
    \A i \in DOMAIN iframes :
        (/\ iframes[i].pc = "done"
         /\ iframes[i].pageCount > iframes[i].totalPages
         /\ iframes[i].totalPages > 0)
        => /\ Len(iframes[i].pdfPages) = iframes[i].totalPages
           /\ iframes[i].pdfPages = ConvertedPdf(iframes[i].totalPages)

\* A document trimmed by one page and a document trimmed by two.
C16_Witness ==
    \E i, j \in DOMAIN iframes :
        /\ iframes[i].pc = "done" /\ iframes[j].pc = "done"
        /\ iframes[i].pageCount = 3 /\ iframes[i].totalPages = 2
        /\ iframes[j].pageCount = 3 /\ iframes[j].totalPages = 1

\* Call n has delivered its result: its iframe ran to the end and every
\* message it posted has been dispatched.
Delivered(n) ==
    \E i \in IframesOf(n) : iframes[i].pc = "done" /\ QueuedFrom(n) = {}

\* C17: every iframe render attaches is eventually removed from the document
\* once its invocation has delivered its result.
C17_AutomaticCleanup ==
    \A n \in 1..MaxRender :
        (n \in DOMAIN calls /\ Delivered(n)) ~> (IframesOf(n) = {})

\* C18: a render call with isViewOnlySkipMakingPDF set only paginates: its
\* iframe never starts conversion and posts no PDF_READY or PDF_ERROR, and
\* once pagination is over onPreviewReady has run with the outcome.
C18_PreviewSkipsConversion ==
    \A i \in DOMAIN iframes :
        calls[iframes[i].call].isViewOnlySkipMakingPDF =>
            /\ iframes[i].pc # "converting"
            /\ \A k \in DOMAIN iframes[i].posted :
                  iframes[i].posted[k] \notin {"PDF_READY", "PDF_ERROR"}
            /\ (iframes[i].pc = "done" /\ QueuedFrom(iframes[i].call) = {}) =>
                  Len(hist[iframes[i].call].onPreviewReady) = 1

\* C19: exactly one message listener is attached to the window, however many
\* PagifySDK instances have been constructed.
C19_SingleListener ==
    hasWindow => Cardinality(listeners) = 1

\* The discriminants the listener has a branch for.
KnownTypes == {"renderpdf", "PDF_READY", "PDF_ERROR"}

\* Dispatching a queued message of no known type changes nothing but the
\* queue: no callback runs, the host is handed no event, the counter and both
\* registries stay.
C20_IgnoredStep ==
    (inbox # <<>> /\ inbox' = Tail(inbox) /\ Head(inbox).type \notin KnownTypes)
    => UNCHANGED <<hist, promise, received, instanceCounter, callbackStorage,
                   pdfCallbackStorage>>

\* C20: a message whose type is none of renderpdf, PDF_READY, PDF_ERROR (a
\* message with no data or no type included) is ignored: no callback runs, no
\* event is dispatched, the counter and both registries are unchanged.
C20_OtherTypesIgnored == [][C20_IgnoredStep]_vars

\* A message with no type, carrying the id of a call whose callbacks are all
\* stored, is next to be dispatched while the host listens for both events.
C20_Witness ==
    /\ inbox # <<>>
    /\ Head(inbox).type = NoType
    /\ Head(inbox).iter = InitialCounter
    /\ eventListeners = EventNames
    /\ InitialCounter \in DOMAIN callbackStorage[1]
    /\ InitialCounter \in DOMAIN pdfCallbackStorage[1]

\* The message a step hands to the listeners (the oldest queued one), when
\* the step is a dispatch.
Dispatching == inbox # <<>> /\ inbox' = Tail(inbox)

\* The call whose callbacks instance s stores under id k (None: no call).
OwnerOf(s, k) ==
    IF \E n \in DOMAIN calls : calls[n].sdk = s /\ calls[n].id = k
    THEN CHOOSE n \in DOMAIN calls : calls[n].sdk = s /\ calls[n].id = k
    ELSE None

\* How often the pdf callbacks of call n have run.
PdfRuns(h, n) == Len(h[n].onPdfReady) + Len(h[n].onPdfError)

\* C21: a message that no iframe of the SDK posted, whatever type and iter it
\* carries, runs no stored callback and removes no registry entry.
C21_ForeignMessagesIgnored ==
    [][(Dispatching /\ Head(inbox).source = None) =>
          UNCHANGED <<hist, callbackStorage, pdfCallbackStorage>>]_vars

\* C22: when a PDF_READY or PDF_ERROR message for id i is dispatched while a
\* pair is stored under i, exactly one side of the pair runs and the pair is
\* gone afterwards, also when only one side was supplied.
C22_PairResolvedOnResult ==
    [][\A s \in listeners :
          (/\ Dispatching
           /\ Head(inbox).type \in {"PDF_READY", "PDF_ERROR"}
           /\ Head(inbox).iter \in DOMAIN pdfCallbackStorage[s])
          => /\ Head(inbox).iter \notin DOMAIN pdfCallbackStorage'[s]
             /\ LET n == OwnerOf(s, Head(inbox).iter) IN
                PdfRuns(hist', n) = PdfRuns(hist, n) + 1]_vars

\* C23: after a renderpdf message for id i is dispatched the completion
\* registry has no entry for i, with or without a callback; a callback that
\* was stored runs, being looked up before the entry is deleted.
C23_CompletionEntryRemoved ==
    [][\A s \in listeners :
          (Dispatching /\ Head(inbox).type = "renderpdf")
          => /\ Head(inbox).iter \notin DOMAIN callbackStorage'[s]
             /\ \A n \in DOMAIN calls :
                   (calls[n].sdk = s /\ calls[n].id = Head(inbox).iter
                    /\ Head(inbox).iter \in DOMAIN callbackStorage[s])
                   => hist'[n].callback =
                         IF calls[n].callback
                         THEN Append(hist[n].callback, Head(inbox).iter)
                         ELSE hist[n].callback]_vars

\* Reached: the renderpdf messages of a call with a completion callback and
\* of a call without one have both been dispatched.
C23_Witness ==
    \E n, k \in DOMAIN calls :
        /\ calls[n].callback /\ ~calls[k].callback
        /\ \A c \in {n, k} :
              /\ \E i \in IframesOf(c) : "renderpdf" \in {iframes[i].posted[j] : j \in DOMAIN iframes[i].posted}
              /\ QueuedFrom(c) = {}
              /\ calls[c].id \notin DOMAIN callbackStorage[calls[c].sdk]
        /\ Len(hist[n].callback) = 1 /\ hist[k].callback = <<>>

\* C24: dispatching renderpdf leaves the pdf registry as it was, dispatching
\* PDF_READY or PDF_ERROR leaves the completion registry as it was, and no
\* message changes the counter.
C24_HandlerFrame ==
    [][Dispatching =>
          /\ UNCHANGED instanceCounter
          /\ Head(inbox).type = "renderpdf" => UNCHANGED pdfCallbackStorage
          /\ Head(inbox).type \in {"PDF_READY", "PDF_ERROR"} => UNCHANGED callbackStorage]_vars

\* Reached: a renderpdf and a PDF_READY message have been dispatched, each
\* while the other registry held the entry of the call.
C24_Witness ==
    \E n, k \in DOMAIN calls :
        /\ n # k
        /\ calls[n].onPdfError /\ calls[n].id \in DOMAIN pdfCallbackStorage[calls[n].sdk]
        /\ calls[n].id \notin DOMAIN callbackStorage[calls[n].sdk]
        /\ calls[k].id \in DOMAIN callbackStorage[calls[k].sdk]
        /\ hist[k].onPdfError # <<>>
        /\ instanceCounter[calls[n].sdk] = InitialCounter + Len(calls)

\* The types an iframe has posted so far.
PostedTypesOf(i) == {iframes[i].posted[j] : j \in DOMAIN iframes[i].posted}

\* C25, as claimed: whatever PDF_READY or PDF_ERROR an iframe posts, it has
\* posted renderpdf with the same id before.
C25_CompletionSignalFirst ==
    \A i \in DOMAIN iframes :
        (PostedTypesOf(i) \cap {"PDF_READY", "PDF_ERROR"} # {}) =>
            /\ iframes[i].posted[1] = "renderpdf"
            /\ EmbeddedIters(iframes[i].srcdoc) = {calls[iframes[i].call].id}

\* C25, amended: a PDF_READY, and a PDF_ERROR of the conversion stage, comes
\* after the iframe's renderpdf with the same id; the PDF_ERROR of a failed
\* pagination is the only message of its iframe.
C25_ConversionAfterCompletion ==
    \A i \in DOMAIN iframes :
        /\ EmbeddedIters(iframes[i].srcdoc) = {calls[iframes[i].call].id}
        /\ "PDF_READY" \in PostedTypesOf(i) => iframes[i].posted[1] = "renderpdf"
        /\ ("PDF_ERROR" \in PostedTypesOf(i) /\ iframes[i].failedAt = "conversion") =>
              iframes[i].posted[1] = "renderpdf"
        /\ iframes[i].failedAt = "pagination" => iframes[i].posted = <<"PDF_ERROR">>

\* Reached: one iframe has posted renderpdf and then PDF_READY, another has
\* failed to paginate and posted PDF_ERROR alone.
C25_Witness ==
    \E i, j \in DOMAIN iframes :
        /\ iframes[i].posted = <<"renderpdf", "PDF_READY">>
        /\ iframes[j].posted = <<"PDF_ERROR">> /\ iframes[j].failedAt = "pagination"

\* C26: an iframe posts PDF_READY and PDF_ERROR at most once together.
C26_AtMostOneResult ==
    \A i \in DOMAIN iframes :
        Cardinality({j \in DOMAIN iframes[i].posted :
                        iframes[i].posted[j] \in {"PDF_READY", "PDF_ERROR"}}) <= 1

\* Reached: every way an iframe ends has happened with one result message:
\* an iframe failed to paginate, another failed to convert.
C26_Witness ==
    \E i, j \in DOMAIN iframes :
        /\ iframes[i].pc = "done" /\ iframes[i].failedAt = "pagination"
        /\ iframes[j].pc = "done" /\ iframes[j].failedAt = "conversion"
        /\ iframes[j].posted = <<"renderpdf", "PDF_ERROR">>

\* C27: an iframe whose script failed at any step has posted PDF_ERROR with
\* the id of its call, and no PDF_READY.
C27_EveryFailureReported ==
    \A i \in DOMAIN iframes :
        iframes[i].failedAt # "" =>
            /\ "PDF_ERROR" \in PostedTypesOf(i)
            /\ "PDF_READY" \notin PostedTypesOf(i)
            /\ EmbeddedIters(iframes[i].srcdoc) = {calls[iframes[i].call].id}

\* Every iframe has run to the end and every message has been dispatched.
Quiescent ==
    /\ inbox = <<>>
    /\ \A n \in DOMAIN calls : calls[n].failure = "" => IframesOf(n) # {}
    /\ \A i \in DOMAIN iframes : iframes[i].pc = "done"

\* C28: once every iframe has run to the end and every message has been
\* dispatched, each call's completion callback and one of its pdf callbacks
\* have run and neither registry has an entry for its id.
C28_EverythingResolved ==
    Quiescent =>
        \A n \in DOMAIN calls :
            calls[n].failure = "" =>
                /\ calls[n].id \notin DOMAIN callbackStorage[calls[n].sdk]
                /\ calls[n].id \notin DOMAIN pdfCallbackStorage[calls[n].sdk]
                /\ calls[n].callback => hist[n].callback # <<>>
                /\ (calls[n].onPdfReady /\ calls[n].onPdfError) => PdfRuns(hist, n) > 0

\* C29: a call whose iframe was destroyed before it posted anything keeps
\* its registry entries and none of its callbacks has run.
C29_DestroyedStaysUnresolved ==
    \A i \in DOMAIN iframes :
        (iframes[i].pc = "destroyed" /\ iframes[i].posted = <<>>) =>
            LET n == iframes[i].call IN
            /\ calls[n].id \in DOMAIN callbackStorage[calls[n].sdk]
            /\ calls[n].id \in DOMAIN pdfCallbackStorage[calls[n].sdk]
            /\ hist[n] = NoRuns

\* C30: the counter starts at 1, every render call adds exactly one to it
\* (calls that fail later included), nothing else changes it, and the first
\* call gets id 1.
C30_CounterPerCall ==
    /\ \A s \in DOMAIN instanceCounter : instanceCounter[s] = 1
    /\ [][/\ Len(calls') = Len(calls) => UNCHANGED instanceCounter
          /\ Len(calls') = Len(calls) + 1 =>
                LET c == calls'[Len(calls')] IN
                /\ instanceCounter' = [instanceCounter EXCEPT ![c.sdk] = @ + 1]
                /\ c.id = instanceCounter[c.sdk]
                /\ Len(calls) = 0 => c.id = 1]_vars

\* C31: every key of the completion registry and of the pdf registry is an
\* id that was allocated: at least 1 and less than the counter.
C31_KeysAllocated ==
    \A s \in DOMAIN instanceCounter :
        \A k \in DOMAIN callbackStorage[s] \cup DOMAIN pdfCallbackStorage[s] :
            InitialCounter <= k /\ k < instanceCounter[s]

\* Reached: both registries hold the ids of two calls.
C31_Witness ==
    \E s \in DOMAIN instanceCounter :
        /\ instanceCounter[s] = InitialCounter + 2
        /\ DOMAIN callbackStorage[s] = {InitialCounter, InitialCounter + 1}
        /\ DOMAIN pdfCallbackStorage[s] = {InitialCounter, InitialCounter + 1}

\* The ids of the messages dispatched so far cannot be read off a state; a
\* call is untouched while its iframe, if any, has posted nothing.
Untouched(n) == \A i \in IframesOf(n) : iframes[i].posted = <<>>

\* C32: render stores the callbacks of a call in the same step that attaches
\* its iframe, so from the first state in which the iframe exists, and until
\* one of its messages is dispatched, the completion entry of the call is
\* there; the pdf entry is there exactly if onPdfReady or onPdfError was
\* given, and every call gets a completion entry.
C32_StoredBeforeAttached ==
    /\ [](\A n \in DOMAIN calls :
            Untouched(n) =>
                /\ calls[n].id \in DOMAIN callbackStorage[calls[n].sdk]
                /\ calls[n].id \in DOMAIN pdfCallbackStorage[calls[n].sdk]
                      <=> (calls[n].onPdfReady \/ calls[n].onPdfError))
    /\ [][/\ Dispatching /\ Head(inbox).source # None =>
                \E n \in DOMAIN calls :
                    /\ Head(inbox).source = n /\ Head(inbox).iter = calls[n].id
                    /\ Head(inbox).type = "renderpdf" =>
                          calls[n].id \in DOMAIN callbackStorage[calls[n].sdk]
          /\ Len(calls') = Len(calls) + 1 =>
                LET c == calls'[Len(calls')] IN
                /\ c.id \in DOMAIN callbackStorage'[c.sdk]
                /\ c.id \notin DOMAIN callbackStorage[c.sdk]
                /\ \A i \in DOMAIN iframes' :
                      i \notin DOMAIN iframes => iframes'[i].call = Len(calls')]_vars

\* Reached: a call without pdf callbacks and a call with the error callback
\* alone are both mounted, and a call whose mount failed has its entries too.
C32_Witness ==
    \E n, k \in DOMAIN calls :
        /\ ~calls[n].onPdfReady /\ ~calls[n].onPdfError /\ calls[n].failure = ""
        /\ IframesOf(n) # {} /\ Untouched(n)
        /\ calls[n].id \notin DOMAIN pdfCallbackStorage[calls[n].sdk]
        /\ calls[k].onPdfError /\ ~calls[k].onPdfReady /\ calls[k].failure # ""
        /\ IframesOf(k) = {}
        /\ calls[k].id \in DOMAIN pdfCallbackStorage[calls[k].sdk]

\* C33: an iframe whose pagination failed has posted PDF_ERROR and no
\* renderpdf, the completion callback of its call has not run and the
\* completion entry of the call is still stored, in every later state.
C33_FailedPaginationKeepsEntry ==
    \A i \in DOMAIN iframes :
        iframes[i].failedAt = "pagination" =>
            LET n == iframes[i].call IN
            /\ iframes[i].posted = <<"PDF_ERROR">>
            /\ hist[n].callback = <<>>
            /\ calls[n].id \in DOMAIN callbackStorage[calls[n].sdk]

\* C34: onPdfReady of a call that also gave a completion callback runs only
\* after that completion callback has run.
C34_CompletionBeforeReady ==
    \A n \in DOMAIN calls :
        (calls[n].callback /\ calls[n].onPdfReady /\ hist[n].onPdfReady # <<>>) =>
            hist[n].callback # <<>>

C36_NoTrimming ==
    \A i \in DOMAIN iframes :
        (/\ iframes[i].pc = "done"
         /\ \/ iframes[i].pageCount <= iframes[i].totalPages
            \/ iframes[i].totalPages = 0)
        => iframes[i].pdfPages = ConvertedPdf(iframes[i].pageCount)

\* Reached: a PDF of two pages or more is left whole with a total of zero,
\* and another with a total that is not less than its page count.
C36_Witness ==
    \E i, j \in DOMAIN iframes :
        /\ iframes[i].pc = "done" /\ iframes[i].totalPages = 0
        /\ iframes[i].pageCount >= 2 /\ Len(iframes[i].pdfPages) = iframes[i].pageCount
        /\ iframes[j].pc = "done" /\ iframes[j].totalPages > 0
        /\ iframes[j].pageCount <= iframes[j].totalPages
        /\ Len(iframes[j].pdfPages) = iframes[j].pageCount

====
